---- MODULE Spec2Model ----
(***************************************************************************)
(* PKCE (RFC 7636) code verifier / code challenge library.                 *)
(*                                                                         *)
(* The library is a set of stateless functions over JavaScript values.     *)
(* The state of the model is the bag of the calls made so far (operation,  *)
(* arguments, random draws consumed, outcome: a call made twice with the   *)
(* same outcome is in the bag twice); there is one action per exported     *)
(* function.  For concurrent invocations (SpecConcurrent) the invocations  *)
(* in flight are kept as frames, each with its position in the function    *)
(* and its local constants, and run one statement group at a time.  The    *)
(* heap holds the objects that outlive a call: the module's constants      *)
(* object and the pair objects returned to callers.                        *)
(*                                                                         *)
(* JavaScript strings are TLA+ strings (Len, SubSeq and \o act on them).   *)
(***************************************************************************)
EXTENDS Integers, Sequences, FiniteSets, Bags, TLC

VARIABLES history, frames, heap

vars == <<history, frames, heap>>

(***************************************************************************)
(* Bounds of the model.                                                    *)
(***************************************************************************)
\* calls recorded in one behaviour of Spec
MaxCalls == 3
\* Math.random() returns k / RandomScale for some k in 0..RandomScale-1
RandomScale == 1000
\* invocations started in one behaviour of SpecConcurrent
MaxInvocations == 2
Sweeps == 100

(***************************************************************************)
(* JavaScript values: a type tag and the value's text.                     *)
(***************************************************************************)
JSString(s) == [type |-> "string", value |-> s]
JSUndefined == [type |-> "undefined", value |-> ""]
JSNull == [type |-> "null", value |-> ""]
JSBoolean(b) == [type |-> "boolean", value |-> IF b THEN "true" ELSE "false"]
JSError(message) == [type |-> "Error", value |-> message]
JSObject(props) == [type |-> "object", value |-> "", props |-> props]
JSNumber(n) == [type |-> "number", value |-> ToString(n)]
JSArray(elements) == [type |-> "array", value |-> "", props |-> elements]

typeof(v) == IF v.type \in {"null", "Error", "array"} THEN "object" ELSE v.type

\* !v : the falsy values among the modelled ones are "", null, undefined,
\* false and 0
Not(v) ==
  \/ v.type \in {"undefined", "null"}
  \/ v.type = "string" /\ v.value = ""
  \/ v.type = "boolean" /\ v.value = "false"
  \/ v.type = "number" /\ v.value = "0"

\* v.length: the number of characters of a string, the number of elements
\* of an array, undefined for the other modelled values
HasLength(v) == v.type \in {"string", "array"}
lengthOf(v) == IF v.type = "string" THEN Len(v.value) ELSE Len(v.props)

\* a === b on primitives
StrictEquals(a, b) == a.type = b.type /\ a.value = b.value

\* String.prototype.charAt: the empty string when the index is out of range
charAt(s, i) == IF 0 <= i /\ i < Len(s) THEN SubSeq(s, i + 1, i + 1) ELSE ""

\* String.prototype.includes
includes(s, sub) ==
  \E i \in 0..(Len(s) - Len(sub)) : SubSeq(s, i + 1, i + Len(sub)) = sub

\* String.prototype.repeat
RECURSIVE repeat(_, _)
repeat(s, n) ==
  IF n = 0 THEN ""
  ELSE LET h == repeat(s, n \div 2)
       IN  IF n % 2 = 1 THEN h \o h \o s ELSE h \o h

\* Array.prototype.join('') of the elements lo..hi of a 1-based array
RECURSIVE joinRange(_, _, _)
joinRange(array, lo, hi) ==
  IF lo > hi THEN ""
  ELSE IF lo = hi THEN array[lo]
  ELSE LET mid == (lo + hi) \div 2
       IN  joinRange(array, lo, mid) \o joinRange(array, mid + 1, hi)

join(array) == joinRange(array, 1, Len(array))

\* String.prototype.toUpperCase on ASCII strings
UpperCaseOf(char) ==
  LET lower == "abcdefghijklmnopqrstuvwxyz"
      upper == "ABCDEFGHIJKLMNOPQRSTUVWXYZ"
      at == {i \in 1..26 : SubSeq(lower, i, i) = char}
  IN  IF at = {} THEN char ELSE LET i == CHOOSE j \in at : TRUE IN SubSeq(upper, i, i)

toUpperCase(s) == join([i \in 1..Len(s) |-> UpperCaseOf(SubSeq(s, i, i))])

(***************************************************************************)
(* pkce.constants.ts                                                       *)
(***************************************************************************)
\* MAX_LENGTH mistyped
PKCE_CONSTANTS_MaxLength256 ==
  [CODE_VERIFIER |->
     [MIN_LENGTH |-> 43,
      MAX_LENGTH |-> 256,
      ALLOWED_CHARS |-> "ABCDEFGHIJKLMNOPQRSTUVWXYZabcdefghijklmnopqrstuvwxyz0123456789-._~"],
   CODE_CHALLENGE |->
     [METHOD |-> "S256",
      EXPECTED_LENGTH |-> 43,
      MIN_LENGTH |-> 20,
      MAX_LENGTH |-> 100]]

PKCE_CONSTANTS ==
  [CODE_VERIFIER |->
     [MIN_LENGTH |-> 43,
      MAX_LENGTH |-> 128,
      ALLOWED_CHARS |-> "ABCDEFGHIJKLMNOPQRSTUVWXYZabcdefghijklmnopqrstuvwxyz0123456789-._~"],
   CODE_CHALLENGE |->
     [METHOD |-> "S256",
      EXPECTED_LENGTH |-> 43,
      MIN_LENGTH |-> 20,
      MAX_LENGTH |-> 100]]

(***************************************************************************)
(* Outcome of a call: what it returned or threw, and how many SHA-256      *)
(* digests it computed.                                                    *)
(***************************************************************************)
Return(v, n) == [threw |-> FALSE, value |-> v, hashed |-> n]
Throw(message) == [threw |-> TRUE, value |-> JSError(message), hashed |-> 0]

(***************************************************************************)
(* functions/validate.code.verifier.ts                                     *)
(***************************************************************************)
\* the characters of ALLOWED_CHARS; allowedChars.includes(char) for the
\* one-character string char is char \in AllowedCharSet
AllowedCharSet ==
  {SubSeq(PKCE_CONSTANTS.CODE_VERIFIER.ALLOWED_CHARS, i, i) :
     i \in 1..Len(PKCE_CONSTANTS.CODE_VERIFIER.ALLOWED_CHARS)}

\* the loop keeps going and reports the last offending character
LastInvalidIndex(s) ==
  LET bad == {i \in 0..(Len(s) - 1) : charAt(s, i) \notin AllowedCharSet}
  IN  IF bad = {} THEN -1
      ELSE CHOOSE i \in bad : \A j \in bad : j <= i

\* the index at which the character loop stops (the first character that
\* allowedChars does not include), or -1 when it runs through
FirstInvalidIndex(s) ==
  LET bad == {i \in 0..(Len(s) - 1) : charAt(s, i) \notin AllowedCharSet}
  IN  IF bad = {} THEN -1
      ELSE CHOOSE i \in bad : \A j \in bad : i <= j

\* the character loop placed before the length checks
validateCodeVerifierCharactersFirst(codeVerifier) ==
  LET minLength == PKCE_CONSTANTS.CODE_VERIFIER.MIN_LENGTH
      maxLength == PKCE_CONSTANTS.CODE_VERIFIER.MAX_LENGTH
      s == codeVerifier.value
      i == FirstInvalidIndex(s)
  IN  IF Not(codeVerifier) THEN Throw("Code verifier is required")
      ELSE IF i >= 0
        THEN Throw("Code verifier contains invalid character '" \o charAt(s, i)
                   \o "' at position " \o ToString(i)
                   \o ". Only URL-safe characters are allowed (RFC 7636)")
      ELSE IF Len(s) < minLength
        THEN Throw("Code verifier must be at least " \o ToString(minLength)
                   \o " characters long (RFC 7636)")
      ELSE IF Len(s) > maxLength
        THEN Throw("Code verifier must be no more than " \o ToString(maxLength)
                   \o " characters long (RFC 7636)")
      ELSE Return(JSUndefined, 0)

\* the validator without the check of the upper bound
validateCodeVerifierNoUpperBound(codeVerifier) ==
  LET minLength == PKCE_CONSTANTS.CODE_VERIFIER.MIN_LENGTH
      s == codeVerifier.value
      i == FirstInvalidIndex(s)
  IN  IF Not(codeVerifier) THEN Throw("Code verifier is required")
      ELSE IF Len(s) < minLength
        THEN Throw("Code verifier must be at least " \o ToString(minLength)
                   \o " characters long (RFC 7636)")
      ELSE IF i >= 0
        THEN Throw("Code verifier contains invalid character '" \o charAt(s, i)
                   \o "' at position " \o ToString(i)
                   \o ". Only URL-safe characters are allowed (RFC 7636)")
      ELSE Return(JSUndefined, 0)

\* A value that is not a string reaches the function at run time (the
\* parameter type is erased).  Its length is undefined unless it is an array:
\* both comparisons with undefined are false and the loop body never runs.
\* An array of 43 to 128 elements enters the loop and has no charAt.
validateCodeVerifier(codeVerifier) ==
  LET minLength == PKCE_CONSTANTS.CODE_VERIFIER.MIN_LENGTH
      maxLength == PKCE_CONSTANTS.CODE_VERIFIER.MAX_LENGTH
      s == codeVerifier.value
      i == FirstInvalidIndex(s)
  IN  IF Not(codeVerifier) THEN Throw("Code verifier is required")
      ELSE IF ~HasLength(codeVerifier) THEN Return(JSUndefined, 0)
      ELSE IF lengthOf(codeVerifier) < minLength
        THEN Throw("Code verifier must be at least " \o ToString(minLength)
                   \o " characters long (RFC 7636)")
      ELSE IF lengthOf(codeVerifier) > maxLength
        THEN Throw("Code verifier must be no more than " \o ToString(maxLength)
                   \o " characters long (RFC 7636)")
      ELSE IF codeVerifier.type = "array"
        THEN Throw("codeVerifier.charAt is not a function")
      ELSE IF i >= 0
        THEN Throw("Code verifier contains invalid character '" \o charAt(s, i)
                   \o "' at position " \o ToString(i)
                   \o ". Only URL-safe characters are allowed (RFC 7636)")
      ELSE Return(JSUndefined, 0)

(***************************************************************************)
(* functions/create.code.verifier.ts                                       *)
(*                                                                         *)
(* The random source is a stream of draws: draw 0 chooses the length, draw *)
(* i >= 1 chooses the character at index i - 1.  A draw is the numerator k *)
(* of the value k / RandomScale that Math.random() returns.  The products  *)
(* Math.random() * n are exact here; in IEEE doubles the largest value     *)
(* below 1 times 86 or 66 still rounds below 86 and 66.                    *)
(***************************************************************************)
Stream(first, start, step) == [first |-> first, start |-> start, step |-> step]

\* the function both draws of the generator call
RandomSource == "Math.random"

Math_random(stream, i) ==
  IF i = 0 THEN stream.first
  ELSE (stream.start + (i - 1) * stream.step) % RandomScale

\* Math.round(r * n) in place of Math.floor(r * n)
RoundTimes(k, n) == (2 * k * n + RandomScale) \div (2 * RandomScale)

\* Math.floor(r * n) for r = k / RandomScale
FloorTimes(k, n) == (k * n) \div RandomScale

\* the random source seeded anew by every call: each call sees the draws
\* that follow the seed
createCodeVerifierReseeded(stream) ==
  LET minLength == PKCE_CONSTANTS.CODE_VERIFIER.MIN_LENGTH
      allowedChars == PKCE_CONSTANTS.CODE_VERIFIER.ALLOWED_CHARS
  IN  join([i \in 1..minLength |-> charAt(allowedChars, 0)])

\* lengthRange without the + 1: the draw never reaches maxLength
createCodeVerifierExclusiveMax(stream) ==
  LET minLength == PKCE_CONSTANTS.CODE_VERIFIER.MIN_LENGTH
      maxLength == PKCE_CONSTANTS.CODE_VERIFIER.MAX_LENGTH
      lengthRange == maxLength - minLength
      allowedChars == PKCE_CONSTANTS.CODE_VERIFIER.ALLOWED_CHARS
      randomFactor == Math_random(stream, 0)
      length == FloorTimes(randomFactor, lengthRange) + minLength
      allowedCharsLength == Len(allowedChars)
      codeVerifierArray ==
        [i \in 1..length |->
           charAt(allowedChars, FloorTimes(Math_random(stream, i), allowedCharsLength))]
  IN  join(codeVerifierArray)

createCodeVerifier(stream) ==
  LET minLength == PKCE_CONSTANTS.CODE_VERIFIER.MIN_LENGTH
      maxLength == PKCE_CONSTANTS.CODE_VERIFIER.MAX_LENGTH
      lengthRange == maxLength - minLength + 1
      allowedChars == PKCE_CONSTANTS.CODE_VERIFIER.ALLOWED_CHARS
      randomFactor == Math_random(stream, 0)
      length == FloorTimes(randomFactor, lengthRange) + minLength
      allowedCharsLength == Len(allowedChars)
      codeVerifierArray ==
        [i \in 1..length |->
           charAt(allowedChars, FloorTimes(Math_random(stream, i), allowedCharsLength))]
  IN  join(codeVerifierArray)

(***************************************************************************)
(* SHA-256 (FIPS 180-4), as computed by the hash library the deriver       *)
(* calls.  A 32-bit word is the pair <<high 16 bits, low 16 bits>>.        *)
(***************************************************************************)
RECURSIVE BitAnd(_, _, _)
BitAnd(a, b, n) ==
  IF n = 0 THEN 0
  ELSE (a % 2) * (b % 2) + 2 * BitAnd(a \div 2, b \div 2, n - 1)

And8 == [a \in 0..255 |-> [b \in 0..255 |-> BitAnd(a, b, 8)]]

And16(a, b) == And8[a % 256][b % 256] + 256 * And8[a \div 256][b \div 256]
Xor16(a, b) == a + b - 2 * And16(a, b)

AndW(a, b) == <<And16(a[1], b[1]), And16(a[2], b[2])>>
XorW(a, b) == <<Xor16(a[1], b[1]), Xor16(a[2], b[2])>>
NotW(a) == <<65535 - a[1], 65535 - a[2]>>
AddW(a, b) ==
  LET lo == a[2] + b[2]
      hi == a[1] + b[1] + (lo \div 65536)
  IN  <<hi % 65536, lo % 65536>>

ROTR(n, w) ==
  LET x == IF n >= 16 THEN <<w[2], w[1]>> ELSE w
      m == n % 16
      p == 2 ^ m
      q == 2 ^ (16 - m)
  IN  <<(x[1] \div p) + (x[2] % p) * q, (x[2] \div p) + (x[1] % p) * q>>

SHR(n, w) ==
  IF n >= 16 THEN <<0, w[1] \div (2 ^ (n - 16))>>
  ELSE LET p == 2 ^ n
           q == 2 ^ (16 - n)
       IN  <<w[1] \div p, (w[2] \div p) + (w[1] % p) * q>>

Ch(x, y, z) == XorW(AndW(x, y), AndW(NotW(x), z))
Maj(x, y, z) == XorW(XorW(AndW(x, y), AndW(x, z)), AndW(y, z))
BigSigma0(x) == XorW(XorW(ROTR(2, x), ROTR(13, x)), ROTR(22, x))
BigSigma1(x) == XorW(XorW(ROTR(6, x), ROTR(11, x)), ROTR(25, x))
SmallSigma0(x) == XorW(XorW(ROTR(7, x), ROTR(18, x)), SHR(3, x))
SmallSigma1(x) == XorW(XorW(ROTR(17, x), ROTR(19, x)), SHR(10, x))

SHA256_K ==
  <<
    <<17034, 12184>>, <<28983, 17553>>, <<46528, 64463>>, <<59829, 56229>>,
    <<14678, 49755>>, <<23025,  4593>>, <<37439, 33444>>, <<43804, 24277>>,
    <<55303, 43672>>, << 4739, 23297>>, << 9265, 34238>>, <<21772, 32195>>,
    <<29374, 23924>>, <<32990, 45566>>, <<39900,  1703>>, <<49563, 61812>>,
    <<58523, 27073>>, <<61374, 18310>>, << 4033, 40390>>, << 9228, 41420>>,
    <<11753, 11375>>, <<19060, 33962>>, <<23728, 43484>>, <<30457, 35034>>,
    <<38974, 20818>>, <<43057, 50797>>, <<45059, 10184>>, <<48985, 32711>>,
    <<50912,  3059>>, <<54695, 37191>>, << 1738, 25425>>, << 5161, 10599>>,
    <<10167,  2693>>, <<11803,  8504>>, <<19756, 28156>>, <<21304,  3347>>,
    <<25866, 29524>>, <<30314,  2747>>, <<33218, 51502>>, <<37490, 11397>>,
    <<41663, 59553>>, <<43034, 26187>>, <<49739, 35696>>, <<51052, 20899>>,
    <<53650, 59417>>, <<54937,  1572>>, <<62478, 13701>>, << 4202, 41072>>,
    << 6564, 49430>>, << 7735, 27656>>, <<10056, 30540>>, <<13488, 48309>>,
    <<14620,  3251>>, <<20184, 43594>>, <<23452, 51791>>, <<26670, 28659>>,
    <<29839, 33518>>, <<30885, 25455>>, <<33992, 30740>>, <<36039,   520>>,
    <<37054, 65530>>, <<42064, 27883>>, <<48889, 41975>>, <<50801, 30962>>
  >>

SHA256_H0 ==
  <<
    <<27145, 58983>>, <<47975, 44677>>, <<15470, 62322>>, <<42319, 62778>>,
    <<20750, 21119>>, <<39685, 26764>>, << 8067, 55723>>, <<23520, 52505>>
  >>

AsciiLow == " !\"#$%&'()*+,-./0123456789:;<=>?@ABCDEFGHIJKLMNOPQRSTUVWXYZ[\\]^_"
AsciiHigh == "abcdefghijklmnopqrstuvwxyz{|}~"
IndexOf(s, c) == IF \E i \in 1..Len(s) : SubSeq(s, i, i) = c
                 THEN CHOOSE i \in 1..Len(s) : SubSeq(s, i, i) = c
                 ELSE 0
charCode(c) ==
  IF IndexOf(AsciiLow, c) > 0 THEN 31 + IndexOf(AsciiLow, c)
  ELSE 96 + IndexOf(AsciiHigh, c)

\* the UTF-16LE bytes of s: two bytes per character
Utf16leBytes(s) ==
  [i \in 1..(2 * Len(s)) |->
     IF i % 2 = 1 THEN charCode(SubSeq(s, (i + 1) \div 2, (i + 1) \div 2)) ELSE 0]

Utf8Bytes(s) == [i \in 1..Len(s) |-> charCode(SubSeq(s, i, i))]

\* FIPS 180-4 5.1.1: append 0x80, zeros up to 56 mod 64, the bit length on 8 bytes
PaddedLen(n) == ((n + 8) \div 64 + 1) * 64
Pad(bytes) ==
  LET n == Len(bytes)
      total == PaddedLen(n)
      bits == 8 * n
  IN  [i \in 1..total |->
         IF i <= n THEN bytes[i]
         ELSE IF i = n + 1 THEN 128
         ELSE IF i = total - 1 THEN (bits \div 256) % 256
         ELSE IF i = total THEN bits % 256
         ELSE 0]

BlockWords(padded, b) ==
  [t \in 1..16 |->
     LET o == 64 * (b - 1) + 4 * (t - 1)
     IN  <<padded[o + 1] * 256 + padded[o + 2], padded[o + 3] * 256 + padded[o + 4]>>]

RECURSIVE Schedule(_)
Schedule(w) ==
  IF Len(w) = 64 THEN w
  ELSE LET t == Len(w) + 1
       IN  Schedule(Append(w,
             AddW(AddW(SmallSigma1(w[t - 2]), w[t - 7]),
                  AddW(SmallSigma0(w[t - 15]), w[t - 16]))))

Round(s, k, w) ==
  LET t1 == AddW(AddW(AddW(s[8], BigSigma1(s[5])), AddW(Ch(s[5], s[6], s[7]), k)), w)
      t2 == AddW(BigSigma0(s[1]), Maj(s[1], s[2], s[3]))
  IN  <<AddW(t1, t2), s[1], s[2], s[3], AddW(s[4], t1), s[5], s[6], s[7]>>

RECURSIVE Rounds(_, _, _)
Rounds(s, w, t) ==
  IF Len(s) = 8 /\ t <= 64 THEN Rounds(Round(s, SHA256_K[t], w[t]), w, t + 1) ELSE s

Compress(h, block) ==
  LET s == Rounds(h, Schedule(block), 1)
  IN  [i \in 1..8 |-> AddW(h[i], s[i])]

RECURSIVE Blocks(_, _, _)
Blocks(h, padded, b) ==
  IF 64 * (b - 1) >= Len(padded) THEN h
  ELSE Blocks(Compress(h, BlockWords(padded, b)), padded, b + 1)

SHA256(bytes) ==
  LET h == Blocks(SHA256_H0, Pad(bytes), 1)
  IN  [i \in 1..32 |->
         LET w == h[(i - 1) \div 4 + 1]
             half == w[((i - 1) % 4) \div 2 + 1]
         IN  IF i % 2 = 1 THEN half \div 256 ELSE half % 256]

Base64urlMap == "ABCDEFGHIJKLMNOPQRSTUVWXYZabcdefghijklmnopqrstuvwxyz0123456789-_"
B64(n) == SubSeq(Base64urlMap, n + 1, n + 1)
Triple(b, g) ==
  LET o == 3 * (g - 1)
      n == Len(b) - o
      b1 == b[o + 1]
      b2 == IF n >= 2 THEN b[o + 2] ELSE 0
      b3 == IF n >= 3 THEN b[o + 3] ELSE 0
  IN  B64(b1 \div 4) \o B64((b1 % 4) * 16 + b2 \div 16)
      \o (IF n >= 2 THEN B64((b2 % 16) * 4 + b3 \div 64) ELSE "")
      \o (IF n >= 3 THEN B64(b3 % 64) ELSE "")
RECURSIVE Base64url(_, _)
Base64url(b, g) ==
  IF 3 * (g - 1) >= Len(b) THEN "" ELSE Triple(b, g) \o Base64url(b, g + 1)


\* createHash('sha256').update(s).digest('base64url'), and the same value
\* from SHA256(s).toString(enc.Base64url)
\* the digest in standard base64 (enc.Base64, digest('base64')): "+" and "/"
\* for "-" and "_", and the padding kept
sha256Base64(s) ==
  LET text == Base64url(SHA256(Utf8Bytes(s)), 1)
  IN  join([i \in 1..Len(text) |->
              LET char == SubSeq(text, i, i)
              IN  IF char = "-" THEN "+" ELSE IF char = "_" THEN "/" ELSE char])
      \o "="

sha256Base64url(s) == Base64url(SHA256(Utf8Bytes(s)), 1)

(***************************************************************************)
(* Inputs of the call sequences (Spec): a few random streams and a few     *)
(* verifier arguments.  The digests of the strings these can hash are      *)
(* computed once and looked up afterwards.                                 *)
(***************************************************************************)
SequenceStreams ==
  {Stream(0, 0, 0),
   Stream(RandomScale \div 2, 3, 137),
   Stream(RandomScale - 1, RandomScale - 1, 0)}

SequenceVerifiers ==
  {JSString("dBjftJeZ4CVP-gOP-GDAHCBqeqAMNR8GvKMsVWo9ZNs"),
   JSString(repeat("A", 43)),
   JSString(repeat("A", 42) \o "B"),
   JSString("too-short"),
   JSUndefined}

SequenceChallenges == {JSString("wrong-challenge-value")}

\* The inputs of the single calls (SpecInputs): the random draws, and the
\* arguments, strings around the length bounds with disallowed characters at
\* several indexes and values of the other types
LengthDraws == {0, 12, RandomScale \div 2, RandomScale - 12, RandomScale - 1}
StartDraws == {0, 7, RandomScale - 1}
StepDraws == {0, 1, 15, 137, 401}

InputStreams ==
  {Stream(first, start, step) :
     first \in LengthDraws, start \in StartDraws, step \in StepDraws}

\* a string of length n of the character fill, with the character bad at the
\* smallest index of at and the character "#" at its other indices
MakeString(n, fill, at, bad) ==
  join([i \in 1..n |->
          IF (i - 1) \notin at THEN fill
          ELSE IF \A j \in at : i - 1 <= j THEN bad ELSE "#"])

InputLengths == {1, 2, 42, 43, 44, 127, 128, 129, 130}
FillCharacters == {"A", "z", "~"}
BadCharacters == {"!", " ", "+", "="}
BadIndexes(n) ==
  {{0}, {n - 1}, {n \div 2}, {n \div 2, n - 1}, {0, n - 1}, {42}} \cap SUBSET (0..(n - 1))

InputVerifiers ==
  {JSString(""), JSNull, JSUndefined,
   JSString(PKCE_CONSTANTS.CODE_VERIFIER.ALLOWED_CHARS),
   JSString("dBjftJeZ4CVP-gOP-GDAHCBqeqAMNR8GvKMsVWo9ZNs"),
   JSString("dBjftJeZ4CVP-mB92K27uhbUJU1p1r_wW1gFWFOEjXk")}
  \cup {JSString(MakeString(n, fill, {}, "")) :
          n \in InputLengths, fill \in FillCharacters}
  \cup UNION {{JSString(MakeString(n, "A", at, bad)) :
                 at \in BadIndexes(n), bad \in BadCharacters} : n \in InputLengths}

InputOthers ==
  {JSNumber(123), JSNumber(0), JSBoolean(TRUE), JSBoolean(FALSE),
   JSObject(<<>>), JSArray(<<>>), JSNull, JSUndefined}

DigestDomain ==
  {createCodeVerifier(stream) : stream \in SequenceStreams}
    \cup {v.value : v \in {w \in SequenceVerifiers : w.type = "string"}}
    \cup {v.value : v \in {w \in InputVerifiers :
                              w.type = "string" /\ ~validateCodeVerifier(w).threw}}

DigestTable == [s \in DigestDomain |-> sha256Base64url(s)]

digest(s) == IF s \in DigestDomain THEN DigestTable[s] ELSE sha256Base64url(s)

(***************************************************************************)
(* functions/create.code.challenge.ts                                      *)
(***************************************************************************)
\* the deriver without its validation step
createCodeChallengeUnvalidated(codeVerifier) ==
  Return(JSString(digest(codeVerifier.value)), 1)

\* the deriver on one hash object shared by all calls: the object is
\* finalized by its first digest and throws on every later use
createCodeChallengeSharedHash(codeVerifier) ==
  LET validation == validateCodeVerifier(codeVerifier)
  IN  IF validation.threw THEN validation
      ELSE IF \E c \in DOMAIN history : c.outcome.hashed > 0
           THEN Throw("Digest already called")
           ELSE Return(JSString(digest(codeVerifier.value)), 1)

\* the deriver hashing the quoted name of its parameter
createCodeChallengeLiteral(codeVerifier) ==
  LET validation == validateCodeVerifier(codeVerifier)
  IN  IF validation.threw THEN validation
      ELSE Return(JSString(digest("codeVerifier")), 1)

createCodeChallenge(codeVerifier) ==
  LET validation == validateCodeVerifier(codeVerifier)
  IN  IF validation.threw THEN validation
      ELSE Return(JSString(digest(codeVerifier.value)), 1)

\* SHA256(value).toString(enc.Base64url) of a value that is not a string: the
\* hash library is not part of the repository; it returns the digest of
\* whatever bytes it takes the value for, or throws
SHA256OfOther ==
  {Return(JSString(sha256Base64url("")), 1),
   Return(JSString(repeat("A", 43)), 1),
   Throw("The \"data\" argument must be of type string")}

\* the outcomes of the deriver for a value that is not a string
createCodeChallengeOfOther(codeVerifier) ==
  LET validation == validateCodeVerifier(codeVerifier)
  IN  IF validation.threw THEN {validation} ELSE SHA256OfOther

(***************************************************************************)
(* functions/is.valid.verifier.ts                                          *)
(***************************************************************************)
\* the length bounds taken as exclusive
isValidVerifierExclusiveBounds(str) ==
  LET minLength == PKCE_CONSTANTS.CODE_VERIFIER.MIN_LENGTH
      maxLength == PKCE_CONSTANTS.CODE_VERIFIER.MAX_LENGTH
  IN  IF Not(str) \/ typeof(str) # "string" THEN FALSE
      ELSE IF Len(str.value) <= minLength \/ Len(str.value) >= maxLength THEN FALSE
      ELSE FirstInvalidIndex(str.value) < 0

\* the character loop left out
isValidVerifierLengthOnly(str) ==
  LET minLength == PKCE_CONSTANTS.CODE_VERIFIER.MIN_LENGTH
      maxLength == PKCE_CONSTANTS.CODE_VERIFIER.MAX_LENGTH
  IN  IF Not(str) \/ typeof(str) # "string" THEN FALSE
      ELSE ~(Len(str.value) < minLength \/ Len(str.value) > maxLength)

\* the guard without its typeof test: the length of a number, a boolean or a
\* plain object is undefined, every comparison with it is false and the
\* loop body never runs
isValidVerifierTruthyGuard(str) ==
  LET minLength == PKCE_CONSTANTS.CODE_VERIFIER.MIN_LENGTH
      maxLength == PKCE_CONSTANTS.CODE_VERIFIER.MAX_LENGTH
  IN  IF Not(str) THEN FALSE
      ELSE IF str.type = "array"
        THEN ~(Len(str.props) < minLength \/ Len(str.props) > maxLength)
      ELSE IF typeof(str) # "string" THEN TRUE
      ELSE IF Len(str.value) < minLength \/ Len(str.value) > maxLength THEN FALSE
      ELSE FirstInvalidIndex(str.value) < 0

isValidVerifier(str) ==
  LET minLength == PKCE_CONSTANTS.CODE_VERIFIER.MIN_LENGTH
      maxLength == PKCE_CONSTANTS.CODE_VERIFIER.MAX_LENGTH
  IN  IF Not(str) \/ typeof(str) # "string" THEN FALSE
      ELSE IF Len(str.value) < minLength \/ Len(str.value) > maxLength THEN FALSE
      ELSE FirstInvalidIndex(str.value) < 0

(***************************************************************************)
(* functions/is.valid.challenge.ts                                         *)
(***************************************************************************)
\* the characters of the class [A-Za-z0-9_-]
Base64urlClass ==
  {SubSeq("ABCDEFGHIJKLMNOPQRSTUVWXYZabcdefghijklmnopqrstuvwxyz0123456789_-", i, i) :
     i \in 1..64}

\* /[A-Za-z0-9_-]+/.test(s): some character of the class anywhere in s
base64urlPatternUnanchored(s) ==
  \E i \in 1..Len(s) : SubSeq(s, i, i) \in Base64urlClass

\* /^[A-Za-z0-9_-]+$/.test(s): one or more characters, all of the class,
\* from the start to the end of s ($ without the m flag matches at the end
\* of the input only)
base64urlPattern(s) ==
  Len(s) >= 1 /\ \A i \in 1..Len(s) : SubSeq(s, i, i) \in Base64urlClass

isValidChallenge(str) ==
  LET minLength == PKCE_CONSTANTS.CODE_CHALLENGE.MIN_LENGTH
      maxLength == PKCE_CONSTANTS.CODE_CHALLENGE.MAX_LENGTH
  IN  IF Not(str) \/ typeof(str) # "string" THEN FALSE
      ELSE IF ~base64urlPattern(str.value) THEN FALSE
      ELSE ~(Len(str.value) < minLength \/ Len(str.value) > maxLength)

(***************************************************************************)
(* functions/verify.pkce.ts                                                *)
(***************************************************************************)
\* the comparison made with the verifier instead of the derived challenge
verifyPkceComparesVerifier(verifier, challenge) ==
  IF typeof(verifier) # "string" THEN Return(JSBoolean(FALSE), 0)
  ELSE LET generatedChallenge == createCodeChallenge(verifier)
       IN  IF generatedChallenge.threw THEN Return(JSBoolean(FALSE), 0)
           ELSE Return(JSBoolean(StrictEquals(verifier, challenge)),
                       generatedChallenge.hashed)

\* the comparison left out: true whenever a challenge could be derived
verifyPkceDerivedOnly(verifier, challenge) ==
  IF typeof(verifier) # "string" THEN Return(JSBoolean(FALSE), 0)
  ELSE LET generatedChallenge == createCodeChallenge(verifier)
       IN  IF generatedChallenge.threw THEN Return(JSBoolean(FALSE), 0)
           ELSE Return(JSBoolean(~Not(generatedChallenge.value)),
                       generatedChallenge.hashed)

\* the comparison made without regard to case
verifyPkceIgnoresCase(verifier, challenge) ==
  IF typeof(verifier) # "string" THEN Return(JSBoolean(FALSE), 0)
  ELSE LET generatedChallenge == createCodeChallenge(verifier)
       IN  IF generatedChallenge.threw THEN Return(JSBoolean(FALSE), 0)
           ELSE Return(JSBoolean(/\ typeof(challenge) = "string"
                                 /\ toUpperCase(generatedChallenge.value.value)
                                      = toUpperCase(challenge.value)),
                       generatedChallenge.hashed)

\* the call of the deriver outside a try block
verifyPkceUncaught(verifier, challenge) ==
  IF typeof(verifier) # "string" THEN Return(JSBoolean(FALSE), 0)
  ELSE LET generatedChallenge == createCodeChallenge(verifier)
       IN  IF generatedChallenge.threw THEN generatedChallenge
           ELSE Return(JSBoolean(StrictEquals(generatedChallenge.value, challenge)),
                       generatedChallenge.hashed)

\* the comparison made after dropping a "=" that ends the challenge
verifyPkceIgnoresPadding(verifier, challenge) ==
  IF typeof(verifier) # "string" THEN Return(JSBoolean(FALSE), 0)
  ELSE LET generatedChallenge == createCodeChallenge(verifier)
           n == Len(challenge.value)
           unpadded ==
             IF n > 0 /\ SubSeq(challenge.value, n, n) = "="
             THEN SubSeq(challenge.value, 1, n - 1) ELSE challenge.value
       IN  IF generatedChallenge.threw THEN Return(JSBoolean(FALSE), 0)
           ELSE Return(JSBoolean(/\ typeof(challenge) = "string"
                                 /\ generatedChallenge.value.value = unpadded),
                       generatedChallenge.hashed)

verifyPkce(verifier, challenge) ==
  IF typeof(verifier) # "string" THEN Return(JSBoolean(FALSE), 0)
  ELSE LET generatedChallenge == createCodeChallenge(verifier)
       IN  IF generatedChallenge.threw THEN Return(JSBoolean(FALSE), 0)
           ELSE Return(JSBoolean(StrictEquals(generatedChallenge.value, challenge)),
                       generatedChallenge.hashed)

(***************************************************************************)
(* pkce.ts                                                                 *)
(***************************************************************************)
\* the pair labelled with the method "plain" of RFC 7636
pkcePlainMethod(stream) ==
  LET codeVerifier == JSString(createCodeVerifier(stream))
      codeChallenge == createCodeChallenge(codeVerifier)
  IN  IF codeChallenge.threw THEN codeChallenge
      ELSE Return(JSObject(<< <<"code_verifier", codeVerifier>>,
                              <<"code_challenge", codeChallenge.value>>,
                              <<"code_challenge_method", JSString("plain")>> >>),
                  codeChallenge.hashed)

\* the challenge derived from a second call of the generator, which
\* consumes the draws that follow those of the first call
pkceSecondVerifier(stream) ==
  LET codeVerifier == JSString(createCodeVerifier(stream))
      n == Len(codeVerifier.value)
      following == Stream(Math_random(stream, n + 1),
                          Math_random(stream, n + 2), stream.step)
      codeChallenge == createCodeChallenge(JSString(createCodeVerifier(following)))
  IN  IF codeChallenge.threw THEN codeChallenge
      ELSE Return(JSObject(<< <<"code_verifier", codeVerifier>>,
                              <<"code_challenge", codeChallenge.value>>,
                              <<"code_challenge_method",
                                JSString(PKCE_CONSTANTS.CODE_CHALLENGE.METHOD)>> >>),
                  codeChallenge.hashed)

pkce(stream) ==
  LET codeVerifier == JSString(createCodeVerifier(stream))
      codeChallenge == createCodeChallenge(codeVerifier)
  IN  IF codeChallenge.threw THEN codeChallenge
      ELSE Return(JSObject(<< <<"code_verifier", codeVerifier>>,
                              <<"code_challenge", codeChallenge.value>>,
                              <<"code_challenge_method",
                                JSString(PKCE_CONSTANTS.CODE_CHALLENGE.METHOD)>> >>),
                  codeChallenge.hashed)

(***************************************************************************)
(* The minimal variant: create.code.verifier.ts, create.code.challenge.ts  *)
(* and pkce.ts without constants, validation and utilities.                *)
(***************************************************************************)
createCodeVerifierMinimal(stream) ==
  LET CHARACTERS == "ABCDEFGHIJKLMNOPQRSTUVWXYZabcdefghijklmnopqrstuvwxyz0123456789-._~"
      CHARACTERS_LENGTH == Len(CHARACTERS)
      length == FloorTimes(Math_random(stream, 0), 128 - 43 + 1) + 43
  IN  join([i \in 1..length |->
              charAt(CHARACTERS, FloorTimes(Math_random(stream, i), CHARACTERS_LENGTH))])

\* SHA256(codeVerifier).toString(enc.Base64), the padded standard alphabet
createCodeChallengeMinimalBase64(codeVerifier) ==
  Return(JSString(sha256Base64(codeVerifier.value)), 1)

\* SHA256(codeVerifier).toString(enc.Base64url), of a string
createCodeChallengeMinimal(codeVerifier) ==
  Return(JSString(digest(codeVerifier.value)), 1)

pkceMinimal(stream) ==
  LET codeVerifier == JSString(createCodeVerifierMinimal(stream))
      codeChallenge == createCodeChallengeMinimal(codeVerifier)
  IN  Return(JSObject(<< <<"code_verifier", codeVerifier>>,
                          <<"code_challenge", codeChallenge.value>> >>),
             codeChallenge.hashed)

\* obj[key] of a returned object
Get(obj, key) == (CHOOSE p \in {obj.props[i] : i \in 1..Len(obj.props)} : p[1] = key)[2]

(***************************************************************************)
(* The calls.  A call is recorded with its arguments, the random stream it *)
(* drew from (if any) and its outcome.                                     *)
(***************************************************************************)
Call(op, args, random, outcome) ==
  [op |-> op, args |-> args, random |-> random, outcome |-> outcome]

\* one result object kept at module level: every call overwrites its fields
\* and returns it, so every reference handed out earlier shows the new pair
ReusedObject(h, call) ==
  IF call.op = "pkce" /\ ~call.outcome.threw
  THEN [h EXCEPT !.pairs = IF @ = <<>> THEN <<call.outcome.value>>
                           ELSE [i \in DOMAIN @ |-> call.outcome.value]]
  ELSE h

\* the heap after a call: pkce returns a new object literal; no function
\* assigns a property of the constants, of an argument or of an object
\* returned earlier
NewObjects(h, call) ==
  IF call.op = "pkce" /\ ~call.outcome.threw
  THEN [h EXCEPT !.pairs = Append(@, call.outcome.value)]
  ELSE h

Record(call) ==
  /\ history' = history (+) SetToBag({call})
  /\ heap' = NewObjects(heap, call)
  /\ UNCHANGED frames

\* the calls made so far, and those of one operation
Made == BagToSet(history)
Calls(op) == {c \in Made : c.op = op}

Returned(op) == {c.outcome.value : c \in {d \in Calls(op) : ~d.outcome.threw}}

\* the verifiers and challenges a caller holds after the calls made so far
KnownVerifiers ==
  SequenceVerifiers \cup Returned("createCodeVerifier")
    \cup {Get(pair, "code_verifier") : pair \in Returned("pkce")}

KnownChallenges ==
  SequenceChallenges \cup Returned("createCodeChallenge")
    \cup {Get(pair, "code_challenge") : pair \in Returned("pkce")}

CreateCodeVerifier(streams) ==
  \E stream \in streams :
    Record(Call("createCodeVerifier", <<>>, <<stream>>,
                Return(JSString(createCodeVerifier(stream)), 0)))

ValidateCodeVerifier(verifiers) ==
  \E v \in verifiers :
    Record(Call("validateCodeVerifier", <<v>>, <<>>, validateCodeVerifier(v)))

CreateCodeChallenge(verifiers) ==
  \E v \in verifiers :
    Record(Call("createCodeChallenge", <<v>>, <<>>, createCodeChallenge(v)))

IsValidVerifier(verifiers) ==
  \E v \in verifiers :
    Record(Call("isValidVerifier", <<v>>, <<>>, Return(JSBoolean(isValidVerifier(v)), 0)))

IsValidChallenge(challenges) ==
  \E c \in challenges :
    Record(Call("isValidChallenge", <<c>>, <<>>, Return(JSBoolean(isValidChallenge(c)), 0)))

VerifyPkce(verifiers, challenges) ==
  \E v \in verifiers, c \in challenges :
    Record(Call("verifyPkce", <<v, c>>, <<>>, verifyPkce(v, c)))

Pkce(streams) ==
  \E stream \in streams :
    Record(Call("pkce", <<>>, <<stream>>, pkce(stream)))

CreateCodeChallengeOfOther(values) ==
  \E v \in values :
    \E outcome \in createCodeChallengeOfOther(v) :
      Record(Call("createCodeChallenge", <<v>>, <<>>, outcome))

CreateCodeChallengeMinimal(verifiers) ==
  \E v \in verifiers :
    Record(Call("minimal.createCodeChallenge", <<v>>, <<>>, createCodeChallengeMinimal(v)))

PkceMinimal(streams) ==
  \E stream \in streams :
    Record(Call("minimal.pkce", <<>>, <<stream>>, pkceMinimal(stream)))

Init ==
  /\ history = EmptyBag
  /\ frames = <<>>
  /\ heap = [constants |-> PKCE_CONSTANTS, pairs |-> <<>>]

\* a behaviour of Spec records at most MaxCalls calls
MoreCalls == BagCardinality(history) < MaxCalls

Next ==
  \/ MoreCalls /\ CreateCodeVerifier(SequenceStreams)
  \/ MoreCalls /\ ValidateCodeVerifier(KnownVerifiers)
  \/ MoreCalls /\ CreateCodeChallenge(KnownVerifiers)
  \/ MoreCalls /\ IsValidVerifier(KnownVerifiers)
  \/ MoreCalls /\ IsValidChallenge(KnownChallenges)
  \/ MoreCalls /\ VerifyPkce(KnownVerifiers, KnownChallenges)
  \/ MoreCalls /\ Pkce(SequenceStreams)

Spec == Init /\ [][Next]_vars

(***************************************************************************)
(* Single calls over many inputs (SpecInputs): each behaviour makes one    *)
(* call, with the random stream or the argument drawn from the sets below. *)
(***************************************************************************)
\* challenge arguments: strings around the length bounds 20 and 100, with
\* characters outside the base64url alphabet at several indexes
ChallengeLengths == {1, 19, 20, 21, 43, 99, 100, 101}
ChallengeFillCharacters == {"A", "z", "9", "-", "_"}
ChallengeBadCharacters == {"+", "/", "=", " ", "\n", ".", "~", "!", "\\"}

InputChallenges ==
  {JSString(""),
   JSString("E9Melhoa2OwvFrEMTJguCHaoeK1t8URWbuGJSstw-cM"),
   JSString("ABCDEFGHIJKLMNOPQRSTUVWXYZabcdefghijklmnopqrstuvwxyz0123456789-_"),
   JSString("wrong-challenge-value"),
   JSString("not-a-valid-base64url-string!@#$%")}
  \cup {JSString("ValidBase64UrlStart" \o bad \o "End") : bad \in ChallengeBadCharacters}
  \cup {JSString(MakeString(n, fill, {}, "")) :
          n \in ChallengeLengths, fill \in ChallengeFillCharacters}
  \cup UNION {{JSString(MakeString(n, "A", {at}, bad)) :
                 at \in {0, n \div 2, n - 1}, bad \in ChallengeBadCharacters} :
               n \in ChallengeLengths}
  \cup InputOthers

\* second arguments of verifyPkce: the challenges of the memoised strings,
\* the same upper-cased and padded, other strings and values of other types
VerifyChallenges ==
  UNION {{JSString(DigestTable[s]), JSString(toUpperCase(DigestTable[s])),
          JSString(DigestTable[s] \o "=")} : s \in DigestDomain}
  \cup {JSString(""), JSString("challenge"), JSString("wrong-challenge-value"),
        JSString("not-a-valid-base64url-string!@#$%")}
  \cup InputOthers

\* the string arguments of the minimal deriver: the valid verifiers, and
\* invalid strings of every kind (empty, short, long, disallowed characters)
MinimalVerifiers ==
  {v \in InputVerifiers : v.type = "string" /\ v.value \in DigestDomain}
    \cup {JSString(""), JSString("short"), JSString(repeat("a", 129)),
          JSString("invalid@characters!"),
          JSString(MakeString(42, "A", {}, "")),
          JSString(MakeString(43, "A", {0}, "!")),
          JSString(MakeString(128, "z", {127}, "=")),
          JSString(MakeString(130, "~", {}, ""))}

\* the draws of the minimal pair generator
MinimalStreams ==
  SequenceStreams
    \cup {Stream(first, 7, 15) : first \in LengthDraws}

FirstCall == history = EmptyBag

NextInputs ==
  \/ FirstCall /\ CreateCodeVerifier(InputStreams)
  \/ FirstCall /\ ValidateCodeVerifier(InputVerifiers)
  \/ FirstCall /\ CreateCodeChallenge(InputVerifiers)
  \/ FirstCall /\ IsValidVerifier(InputVerifiers \cup InputOthers)
  \/ FirstCall /\ IsValidChallenge(InputChallenges)
  \/ FirstCall /\ VerifyPkce(InputVerifiers \cup InputOthers, VerifyChallenges)
  \/ FirstCall /\ Pkce(InputStreams)
  \/ FirstCall /\ CreateCodeChallengeMinimal(MinimalVerifiers)
  \/ FirstCall /\ PkceMinimal(MinimalStreams)

SpecInputs == Init /\ [][NextInputs]_vars

(***************************************************************************)
(* SpecOthers: sequences of calls of the validator, the deriver and the    *)
(* verifier predicate with values that are not strings.                    *)
(***************************************************************************)
OtherValues ==
  InputOthers \cup {JSArray([i \in 1..43 |-> JSString("A")])}

NextOthers ==
  \/ MoreCalls /\ ValidateCodeVerifier(OtherValues)
  \/ MoreCalls /\ CreateCodeChallengeOfOther(OtherValues)
  \/ MoreCalls /\ IsValidVerifier(OtherValues)

SpecOthers == Init /\ [][NextOthers]_vars

(***************************************************************************)
(* Concurrent invocations (SpecConcurrent).  An invocation is a frame: the *)
(* function, its arguments, the random stream it draws from, its position  *)
(* and its local constants.  A step runs the next statement group of any   *)
(* invocation in flight; an invocation that returns or throws is recorded  *)
(* as a call.                                                              *)
(***************************************************************************)
NoLocals ==
  [codeVerifier |-> JSUndefined, codeChallenge |-> JSUndefined, hashed |-> 0, length |-> 0,
   i |-> 0, codeVerifierArray |-> <<>>]

Frame(op, args, random) ==
  [op |-> op, args |-> args, random |-> random, pc |-> "start", locals |-> NoLocals]

\* one record of locals at module level, taken over by the invocation
\* started last
SharedLocals(i) == frames[Len(frames)].locals

\* the local constants of invocation i
Locals(i) == frames[i].locals

At(i, op, pc) == frames[i].op = op /\ frames[i].pc = pc

Goto(i, pc, locals) ==
  /\ frames' = [frames EXCEPT ![i] = [@ EXCEPT !.pc = pc, !.locals = locals]]
  /\ UNCHANGED <<history, heap>>

Finish(i, outcome) ==
  /\ frames' = [frames EXCEPT ![i] = [@ EXCEPT !.pc = "done"]]
  /\ LET call == Call(frames[i].op, frames[i].args, frames[i].random, outcome)
     IN  history' = history (+) SetToBag({call}) /\ heap' = NewObjects(heap, call)

Invocations(streams, verifiers, challenges) ==
  {Frame("pkce", <<>>, <<stream>>) : stream \in streams}
    \cup {Frame("createCodeVerifier", <<>>, <<stream>>) : stream \in streams}
    \cup {Frame("createCodeChallenge", <<v>>, <<>>) : v \in verifiers}
    \cup {Frame("isValidVerifier", <<v>>, <<>>) : v \in verifiers}
    \cup {Frame("isValidChallenge", <<c>>, <<>>) : c \in challenges}

Invoke(streams, verifiers, challenges) ==
  /\ Len(frames) < MaxInvocations
  /\ \E frame \in Invocations(streams, verifiers, challenges) :
       frames' = Append(frames, frame)
  /\ UNCHANGED <<history, heap>>

\* pkce: const codeVerifier = createCodeVerifier()
PkceGenerate(i) ==
  /\ At(i, "pkce", "start")
  /\ Goto(i, "derive",
          [Locals(i) EXCEPT
             !.codeVerifier = JSString(createCodeVerifier(frames[i].random[1]))])

\* pkce: const codeChallenge = createCodeChallenge(createCodeVerifier()),
\* a second generation whose result is hashed in place of codeVerifier
PkceDeriveSecondGeneration(i) ==
  /\ At(i, "pkce", "derive")
  /\ LET codeChallenge ==
           createCodeChallenge(JSString(createCodeVerifier(Stream(0, 0, 0))))
     IN  IF codeChallenge.threw THEN Finish(i, codeChallenge)
         ELSE Goto(i, "return",
                   [Locals(i) EXCEPT !.codeChallenge = codeChallenge.value,
                                     !.hashed = codeChallenge.hashed])

\* pkce: const codeChallenge = createCodeChallenge(codeVerifier)
PkceDerive(i) ==
  /\ At(i, "pkce", "derive")
  /\ LET codeChallenge == createCodeChallenge(Locals(i).codeVerifier)
     IN  IF codeChallenge.threw THEN Finish(i, codeChallenge)
         ELSE Goto(i, "return",
                   [Locals(i) EXCEPT !.codeChallenge = codeChallenge.value,
                                     !.hashed = codeChallenge.hashed])

\* pkce: return {code_verifier, code_challenge, code_challenge_method}
PkceReturn(i) ==
  /\ At(i, "pkce", "return")
  /\ Finish(i, Return(JSObject(<< <<"code_verifier", Locals(i).codeVerifier>>,
                                  <<"code_challenge", Locals(i).codeChallenge>>,
                                  <<"code_challenge_method",
                                    JSString(PKCE_CONSTANTS.CODE_CHALLENGE.METHOD)>> >>),
                      Locals(i).hashed))

\* createCodeVerifier: the length is drawn
GeneratorLength(i) ==
  /\ At(i, "createCodeVerifier", "start")
  /\ LET minLength == PKCE_CONSTANTS.CODE_VERIFIER.MIN_LENGTH
         maxLength == PKCE_CONSTANTS.CODE_VERIFIER.MAX_LENGTH
         lengthRange == maxLength - minLength + 1
         randomFactor == Math_random(frames[i].random[1], 0)
     IN  Goto(i, "fill",
              [Locals(i) EXCEPT !.length = FloorTimes(randomFactor, lengthRange) + minLength])

\* createCodeVerifier: the characters are drawn and joined
GeneratorFill(i) ==
  /\ At(i, "createCodeVerifier", "fill")
  /\ LET allowedChars == PKCE_CONSTANTS.CODE_VERIFIER.ALLOWED_CHARS
         allowedCharsLength == Len(allowedChars)
         codeVerifierArray ==
           [k \in 1..Locals(i).length |->
              charAt(allowedChars,
                     FloorTimes(Math_random(frames[i].random[1], k), allowedCharsLength))]
     IN  Finish(i, Return(JSString(join(codeVerifierArray)), 0))

\* createCodeChallenge: validateCodeVerifier(codeVerifier)
DeriverValidate(i) ==
  /\ At(i, "createCodeChallenge", "start")
  /\ LET validation == validateCodeVerifier(frames[i].args[1])
     IN  IF validation.threw THEN Finish(i, validation)
         ELSE Goto(i, "hash", [Locals(i) EXCEPT !.codeVerifier = frames[i].args[1]])

\* createCodeChallenge: return SHA256(codeVerifier).toString(enc.Base64url)
DeriverHash(i) ==
  /\ At(i, "createCodeChallenge", "hash")
  /\ Finish(i, Return(JSString(digest(Locals(i).codeVerifier.value)), 1))

PredicateVerifier(i) ==
  /\ At(i, "isValidVerifier", "start")
  /\ Finish(i, Return(JSBoolean(isValidVerifier(frames[i].args[1])), 0))

PredicateChallenge(i) ==
  /\ At(i, "isValidChallenge", "start")
  /\ Finish(i, Return(JSBoolean(isValidChallenge(frames[i].args[1])), 0))

NextConcurrent ==
  \/ Invoke(SequenceStreams, SequenceVerifiers, KnownChallenges)
  \/ \E i \in DOMAIN frames : PkceGenerate(i)
  \/ \E i \in DOMAIN frames : PkceDerive(i)
  \/ \E i \in DOMAIN frames : PkceReturn(i)
  \/ \E i \in DOMAIN frames : GeneratorLength(i)
  \/ \E i \in DOMAIN frames : GeneratorFill(i)
  \/ \E i \in DOMAIN frames : DeriverValidate(i)
  \/ \E i \in DOMAIN frames : DeriverHash(i)
  \/ \E i \in DOMAIN frames : PredicateVerifier(i)
  \/ \E i \in DOMAIN frames : PredicateChallenge(i)

SpecConcurrent == Init /\ [][NextConcurrent]_vars

(***************************************************************************)
(* SpecSweep: the generator is called once for every value the length draw *)
(* can take (the character draws fixed), then once for every value the     *)
(* character draws can take (the length draw at its largest, so that every *)
(* index is filled).  The draw takes Sweeps values spread evenly over      *)
(* [0,1), the j-th being floor(j * RandomScale / Sweeps) / RandomScale.    *)
(***************************************************************************)
Swept == BagCardinality(history)

SweepDraw(j) == (j * RandomScale) \div Sweeps

SweepLengths ==
  /\ Swept < Sweeps
  /\ CreateCodeVerifier({Stream(SweepDraw(Swept), 0, 0)})

SweepCharacters ==
  /\ Swept >= Sweeps
  /\ Swept < 2 * Sweeps
  /\ CreateCodeVerifier({Stream(RandomScale - 1, SweepDraw(Swept - Sweeps), 0)})

NextSweep ==
  \/ SweepLengths
  \/ SweepCharacters

SpecSweep == Init /\ [][NextSweep]_vars

(***************************************************************************)
(* SpecLoops: one invocation of the generator or of the validator, a step  *)
(* being one iteration of its loop.  SpecLoopsFair adds that an invocation *)
(* in flight is not stopped: the functions are synchronous and nothing     *)
(* preempts them for good.                                                 *)
(***************************************************************************)
InvokeLoop(streams, verifiers) ==
  /\ frames = <<>>
  /\ \E frame \in {Frame("createCodeVerifier", <<>>, <<stream>>) : stream \in streams}
                   \cup {Frame("validateCodeVerifier", <<v>>, <<>>) : v \in verifiers} :
       frames' = <<frame>>
  /\ UNCHANGED <<history, heap>>

\* createCodeVerifier: i <= length in place of i < length
GeneratorIterateInclusive(f) ==
  /\ At(f, "createCodeVerifier", "fill")
  /\ Locals(f).i <= Locals(f).length
  /\ LET allowedChars == PKCE_CONSTANTS.CODE_VERIFIER.ALLOWED_CHARS
         allowedCharsLength == Len(allowedChars)
         randomIndex ==
           FloorTimes(Math_random(frames[f].random[1], Locals(f).i + 1), allowedCharsLength)
     IN  Goto(f, "fill",
              [Locals(f) EXCEPT
                 !.codeVerifierArray = Append(@, charAt(allowedChars, randomIndex)),
                 !.i = @ + 1])

\* createCodeVerifier: one iteration of the loop, i < length
GeneratorIterate(f) ==
  /\ At(f, "createCodeVerifier", "fill")
  /\ Locals(f).i < Locals(f).length
  /\ LET allowedChars == PKCE_CONSTANTS.CODE_VERIFIER.ALLOWED_CHARS
         allowedCharsLength == Len(allowedChars)
         randomIndex ==
           FloorTimes(Math_random(frames[f].random[1], Locals(f).i + 1), allowedCharsLength)
     IN  Goto(f, "fill",
              [Locals(f) EXCEPT
                 !.codeVerifierArray = Append(@, charAt(allowedChars, randomIndex)),
                 !.i = @ + 1])

\* createCodeVerifier: the loop is left, return codeVerifierArray.join('')
GeneratorJoin(f) ==
  /\ At(f, "createCodeVerifier", "fill")
  /\ ~(Locals(f).i < Locals(f).length)
  /\ Finish(f, Return(JSString(join(Locals(f).codeVerifierArray)), 0))

\* validateCodeVerifier: the checks before the loop
ValidatorChecks(f) ==
  /\ At(f, "validateCodeVerifier", "start")
  /\ LET codeVerifier == frames[f].args[1]
         minLength == PKCE_CONSTANTS.CODE_VERIFIER.MIN_LENGTH
         maxLength == PKCE_CONSTANTS.CODE_VERIFIER.MAX_LENGTH
     IN  IF Not(codeVerifier) THEN Finish(f, Throw("Code verifier is required"))
         ELSE IF Len(codeVerifier.value) < minLength
           THEN Finish(f, Throw("Code verifier must be at least " \o ToString(minLength)
                                \o " characters long (RFC 7636)"))
         ELSE IF Len(codeVerifier.value) > maxLength
           THEN Finish(f, Throw("Code verifier must be no more than " \o ToString(maxLength)
                                \o " characters long (RFC 7636)"))
         ELSE Goto(f, "scan", [Locals(f) EXCEPT !.length = Len(codeVerifier.value), !.i = 0])

\* validateCodeVerifier: one iteration of the loop
ValidatorScan(f) ==
  /\ At(f, "validateCodeVerifier", "scan")
  /\ Locals(f).i < Locals(f).length
  /\ LET allowedChars == PKCE_CONSTANTS.CODE_VERIFIER.ALLOWED_CHARS
         char == charAt(frames[f].args[1].value, Locals(f).i)
     IN  IF ~includes(allowedChars, char)
         THEN Finish(f, Throw("Code verifier contains invalid character '" \o char
                              \o "' at position " \o ToString(Locals(f).i)
                              \o ". Only URL-safe characters are allowed (RFC 7636)"))
         ELSE Goto(f, "scan", [Locals(f) EXCEPT !.i = @ + 1])

\* validateCodeVerifier: the loop is left, the function returns
ValidatorReturn(f) ==
  /\ At(f, "validateCodeVerifier", "scan")
  /\ ~(Locals(f).i < Locals(f).length)
  /\ Finish(f, Return(JSUndefined, 0))

LoopStep ==
  \/ \E f \in DOMAIN frames : GeneratorLength(f)
  \/ \E f \in DOMAIN frames : GeneratorIterate(f)
  \/ \E f \in DOMAIN frames : GeneratorJoin(f)
  \/ \E f \in DOMAIN frames : ValidatorChecks(f)
  \/ \E f \in DOMAIN frames : ValidatorScan(f)
  \/ \E f \in DOMAIN frames : ValidatorReturn(f)

NextLoops ==
  \/ InvokeLoop(InputStreams, InputVerifiers)
  \/ LoopStep

SpecLoops == Init /\ [][NextLoops]_vars

SpecLoopsFair == SpecLoops /\ WF_vars(LoopStep)

(***************************************************************************)
(* The properties.  They state RFC 7636's constraints on their own: the    *)
(* unreserved characters A-Z a-z 0-9 - . _ ~ and the lengths 43 and 128.   *)
(***************************************************************************)
Unreserved ==
  {"A", "B", "C", "D", "E", "F", "G", "H", "I", "J", "K", "L", "M",
   "N", "O", "P", "Q", "R", "S", "T", "U", "V", "W", "X", "Y", "Z",
   "a", "b", "c", "d", "e", "f", "g", "h", "i", "j", "k", "l", "m",
   "n", "o", "p", "q", "r", "s", "t", "u", "v", "w", "x", "y", "z",
   "0", "1", "2", "3", "4", "5", "6", "7", "8", "9", "-", ".", "_", "~"}

\* the zero-based indexes of s that hold a character outside the alphabet
Disallowed(s) == {i \in 0..(Len(s) - 1) : SubSeq(s, i + 1, i + 1) \notin Unreserved}

IsString(v) == v.type = "string"
ValidVerifier(v) ==
  IsString(v) /\ 43 <= Len(v.value) /\ Len(v.value) <= 128 /\ Disallowed(v.value) = {}

\* the argument of a one-argument call, and the message of a call that threw
Arg(c) == c.args[1]
Message(c) == c.outcome.value.value

\* C1: every call of the verifier generator, whatever the random source
\* returns, returns a string of length 43..128 over the 66-character alphabet.
C1_GeneratedVerifierWellFormed ==
  /\ Cardinality(Unreserved) = 66
  /\ \A c \in Calls("createCodeVerifier") :
       /\ ~c.outcome.threw
       /\ IsString(c.outcome.value)
       /\ 43 <= Len(c.outcome.value.value)
       /\ Len(c.outcome.value.value) <= 128
       /\ Disallowed(c.outcome.value.value) = {}

\* a generator call that drew the largest random value for the length and
\* for every character: 128 times the last character of the alphabet
C1_Witness ==
  \E c \in Calls("createCodeVerifier") :
    /\ c.random[1].first = RandomScale - 1
    /\ c.outcome.value = JSString(repeat("~", 128))

\* C2: every string the generator returns is accepted by isValidVerifier and
\* passes the deriver's validation, and the pair generator never throws.
C2_GeneratedVerifierAccepted ==
  /\ \A c \in Calls("createCodeVerifier") :
       /\ isValidVerifier(c.outcome.value)
       /\ ~validateCodeVerifier(c.outcome.value).threw
  /\ \A c \in Calls("pkce") :
       /\ ~c.outcome.threw
       /\ isValidVerifier(Get(c.outcome.value, "code_verifier"))

\* a pair was generated from the draws that give the longest verifier
C2_Witness ==
  \E c \in Calls("pkce") :
    /\ ~c.outcome.threw
    /\ Len(Get(c.outcome.value, "code_verifier").value) = 128

\* the failure reasons a message states
Reasons(message) ==
  {r \in {"required", "too short", "too long", "invalid character"} :
     includes(message,
              CASE r = "required" -> "is required"
                [] r = "too short" -> "must be at least"
                [] r = "too long" -> "must be no more than"
                [] r = "invalid character" -> "contains invalid character")}

\* the first failure that applies to v in the order required, too short,
\* too long, invalid character; "none" for a valid verifier
FirstFailure(v) ==
  IF ~IsString(v) \/ v.value = "" THEN "required"
  ELSE IF Len(v.value) < 43 THEN "too short"
  ELSE IF Len(v.value) > 128 THEN "too long"
  ELSE IF Disallowed(v.value) # {} THEN "invalid character"
  ELSE "none"

Validations == Calls("validateCodeVerifier") \cup Calls("createCodeChallenge")

\* C3: the validation reports exactly one failure reason per invalid input,
\* the first that applies in the order required, too short, too long, invalid
\* character (and none for a valid input).
C3_FirstFailureWins ==
  \A c \in Validations :
    IF FirstFailure(Arg(c)) = "none" THEN ~c.outcome.threw
    ELSE c.outcome.threw /\ Reasons(Message(c)) = {FirstFailure(Arg(c))}

\* a string shorter than 43 with a disallowed character was reported as too
\* short by the deriver
C3_Witness ==
  \E c \in Calls("createCodeChallenge") :
    /\ IsString(Arg(c)) /\ Len(Arg(c).value) = 42
    /\ Disallowed(Arg(c).value) # {}
    /\ c.outcome.threw /\ Reasons(Message(c)) = {"too short"}

Least(S) == CHOOSE i \in S : \A j \in S : i <= j

\* C4: for a string of length 43..128 with a character outside the alphabet,
\* the deriver throws an invalid-character error whose message names the
\* character at the smallest such index and that zero-based index.
C4_FirstInvalidCharacterNamed ==
  \A c \in Calls("createCodeChallenge") :
    (/\ IsString(Arg(c))
     /\ 43 <= Len(Arg(c).value) /\ Len(Arg(c).value) <= 128
     /\ Disallowed(Arg(c).value) # {})
    => LET s == Arg(c).value
           i == Least(Disallowed(s))
       IN  /\ c.outcome.threw
           /\ includes(Message(c), "invalid character")
           /\ includes(Message(c),
                       "'" \o SubSeq(s, i + 1, i + 1) \o "' at position "
                         \o ToString(i) \o ".")

\* 42 times "A" followed by "!" was reported as '!' at position 42
C4_Witness ==
  \E c \in Calls("createCodeChallenge") :
    /\ Arg(c) = JSString(repeat("A", 42) \o "!")
    /\ c.outcome.threw
    /\ includes(Message(c), "'!' at position 42.")

\* C5: the message of a validation failure of the deriver carries the
\* violated bound: "required" for the empty or absent input, 43 for a string
\* of length 1..42, 128 for a string of length 129 or more.
C5_MessageCarriesBound ==
  \A c \in Calls("createCodeChallenge") :
    LET v == Arg(c)
    IN  /\ (~IsString(v) \/ v.value = "")
             => c.outcome.threw /\ includes(Message(c), "required")
        /\ (IsString(v) /\ 1 <= Len(v.value) /\ Len(v.value) <= 42)
             => c.outcome.threw /\ includes(Message(c), "43")
        /\ (IsString(v) /\ Len(v.value) >= 129)
             => c.outcome.threw /\ includes(Message(c), "128")

\* a string of 129 characters was rejected with the maximum length
C5_Witness ==
  \E c \in Calls("createCodeChallenge") :
    /\ Arg(c) = JSString(repeat("A", 129))
    /\ c.outcome.threw
    /\ includes(Message(c), "128")

\* C6: the deriver returns a challenge only for a valid verifier: for every
\* other string, for null and for undefined it throws an Error whose message
\* contains "Code verifier", and it computes no hash.
C6_InvalidVerifierRejected ==
  \A c \in Calls("createCodeChallenge") :
    IF ValidVerifier(Arg(c))
    THEN ~c.outcome.threw /\ IsString(c.outcome.value)
    ELSE /\ c.outcome.threw
         /\ c.outcome.value.type = "Error"
         /\ includes(Message(c), "Code verifier")
         /\ c.outcome.hashed = 0

\* the deriver was called with null and threw
C6_Witness ==
  \E c \in Calls("createCodeChallenge") :
    Arg(c) = JSNull /\ c.outcome.threw /\ c.outcome.hashed = 0

\* the deriver calls that returned a challenge, and the generated pairs
Derived == {c \in Calls("createCodeChallenge") : ~c.outcome.threw}
Pairs == Returned("pkce")

RoundTrips ==
  {c \in Calls("verifyPkce") :
     /\ ValidVerifier(c.args[1])
     /\ \/ \E d \in Derived : c.args = <<Arg(d), d.outcome.value>>
        \/ \E p \in Pairs :
             c.args = <<Get(p, "code_verifier"), Get(p, "code_challenge")>>}

\* C9: verifyPkce called with a valid verifier and the challenge derived from
\* it returns true, on the first and on every repeated call.
C9_RoundTrip ==
  \A c \in RoundTrips : ~c.outcome.threw /\ c.outcome.value = JSBoolean(TRUE)

\* a challenge was derived and verified twice against its verifier
C9_Witness ==
  \E c \in RoundTrips :
    /\ history[c] >= 2
    /\ \E d \in Derived : c.args = <<Arg(d), d.outcome.value>>

C11_VerifyIffDerivedEqual ==
  \A c \in Calls("verifyPkce") :
    (c.outcome.value = JSBoolean(TRUE))
    <=> /\ ValidVerifier(c.args[1])
        /\ c.args[2] = JSString(digest(c.args[1].value))

\* a valid verifier checked against its challenge in upper case: false
C11_Witness ==
  \E c \in Calls("verifyPkce") :
    /\ ValidVerifier(c.args[1])
    /\ c.args[2] = JSString(toUpperCase(digest(c.args[1].value)))
    /\ c.args[2] # JSString(digest(c.args[1].value))
    /\ c.outcome.value = JSBoolean(FALSE)

\* C12: verifyPkce is total: whatever the types of its two arguments it
\* returns a boolean and never throws, and it returns false whenever the
\* verifier is not a string or is a string the validation rejects.
C12_VerifyTotal ==
  \A c \in Calls("verifyPkce") :
    /\ ~c.outcome.threw
    /\ c.outcome.value \in {JSBoolean(TRUE), JSBoolean(FALSE)}
    /\ ~ValidVerifier(c.args[1]) => c.outcome.value = JSBoolean(FALSE)

\* a string of 129 characters checked against an object: false, no throw
C12_Witness ==
  \E c \in Calls("verifyPkce") :
    /\ IsString(c.args[1]) /\ Len(c.args[1].value) = 129
    /\ c.args[2] = JSObject(<<>>)
    /\ ~c.outcome.threw /\ c.outcome.value = JSBoolean(FALSE)

\* C13: isValidVerifier returns true exactly for a string of length 43..128
\* over the allowed alphabet: lengths 43 and 128 are accepted, 42 and 129
\* rejected.
C13_IsValidVerifierExact ==
  \A c \in Calls("isValidVerifier") :
    /\ ~c.outcome.threw
    /\ (c.outcome.value = JSBoolean(TRUE)) <=> ValidVerifier(Arg(c))
    /\ (IsString(Arg(c)) /\ Len(Arg(c).value) \in {42, 129})
         => c.outcome.value = JSBoolean(FALSE)

\* the all-allowed string of length 128 was accepted
C13_Witness ==
  \E c \in Calls("isValidVerifier") :
    /\ Arg(c) = JSString(repeat("~", 128))
    /\ c.outcome.value = JSBoolean(TRUE)

\* the base64url alphabet: A-Z a-z 0-9 _ -
Base64urlAlphabet ==
  {"A", "B", "C", "D", "E", "F", "G", "H", "I", "J", "K", "L", "M",
   "N", "O", "P", "Q", "R", "S", "T", "U", "V", "W", "X", "Y", "Z",
   "a", "b", "c", "d", "e", "f", "g", "h", "i", "j", "k", "l", "m",
   "n", "o", "p", "q", "r", "s", "t", "u", "v", "w", "x", "y", "z",
   "0", "1", "2", "3", "4", "5", "6", "7", "8", "9", "_", "-"}

OverBase64url(s) == \A i \in 1..Len(s) : SubSeq(s, i, i) \in Base64urlAlphabet

\* C14: isValidChallenge returns true exactly for a string of length 20..100
\* whose characters are all in A-Z a-z 0-9 _ -: a string with "+", "/", "=",
\* whitespace or another character is rejected, lengths 20 and 100 are
\* accepted, 19 and 101 rejected.
C14_IsValidChallengeExact ==
  \A c \in Calls("isValidChallenge") :
    /\ ~c.outcome.threw
    /\ (c.outcome.value = JSBoolean(TRUE))
       <=> /\ IsString(Arg(c))
           /\ 20 <= Len(Arg(c).value) /\ Len(Arg(c).value) <= 100
           /\ OverBase64url(Arg(c).value)
    /\ (IsString(Arg(c)) /\ Len(Arg(c).value) \in {19, 101})
         => c.outcome.value = JSBoolean(FALSE)

\* a string of length 100 that ends with a line feed was rejected
C14_Witness ==
  \E c \in Calls("isValidChallenge") :
    /\ Arg(c) = JSString(repeat("A", 99) \o "\n")
    /\ c.outcome.value = JSBoolean(FALSE)

Predicates == Calls("isValidVerifier") \cup Calls("isValidChallenge")

\* C15: isValidVerifier and isValidChallenge are total: for an argument of
\* any type they return a boolean and do not throw, and they return false
\* for null, undefined, the empty string, numbers, booleans, objects, arrays
\* and malformed strings.
C15_PredicatesTotal ==
  \A c \in Predicates :
    /\ ~c.outcome.threw
    /\ c.outcome.value \in {JSBoolean(TRUE), JSBoolean(FALSE)}
    /\ (~IsString(Arg(c)) \/ Arg(c).value = "") => c.outcome.value = JSBoolean(FALSE)
    /\ (IsString(Arg(c)) /\ ~OverBase64url(Arg(c).value) /\ Disallowed(Arg(c).value) # {})
         => c.outcome.value = JSBoolean(FALSE)

\* the number 123 was rejected by isValidVerifier
C15_Witness ==
  \E c \in Calls("isValidVerifier") :
    /\ Arg(c) = JSNumber(123)
    /\ ~c.outcome.threw /\ c.outcome.value = JSBoolean(FALSE)

\* the keys of a returned object
Keys(obj) == {obj.props[i][1] : i \in 1..Len(obj.props)}

\* C16: every record the pair generator returns has exactly the fields
\* code_verifier, code_challenge and code_challenge_method; the first two
\* are strings and code_challenge_method is the string "S256".
C16_PairShape ==
  \A c \in Calls("pkce") :
    ~c.outcome.threw
    => LET pair == c.outcome.value
       IN  /\ pair.type = "object"
           /\ Len(pair.props) = 3
           /\ Keys(pair) = {"code_verifier", "code_challenge", "code_challenge_method"}
           /\ IsString(Get(pair, "code_verifier"))
           /\ IsString(Get(pair, "code_challenge"))
           /\ Get(pair, "code_challenge_method") = JSString("S256")

\* a pair with a verifier of the smallest length was returned
C16_Witness ==
  \E c \in Calls("pkce") :
    /\ ~c.outcome.threw
    /\ Len(Get(c.outcome.value, "code_verifier").value) = 43
    /\ Get(c.outcome.value, "code_challenge_method") = JSString("S256")

\* C17: for every pair the pair generator returned, a deriver call with the
\* pair's code_verifier returns the pair's code_challenge, and verifyPkce
\* called with the pair's two strings returns true.
C17_PairRederives ==
  \A p \in Pairs :
    /\ \A d \in Calls("createCodeChallenge") :
         Arg(d) = Get(p, "code_verifier")
         => ~d.outcome.threw /\ d.outcome.value = Get(p, "code_challenge")
    /\ \A c \in Calls("verifyPkce") :
         c.args = <<Get(p, "code_verifier"), Get(p, "code_challenge")>>
         => c.outcome.value = JSBoolean(TRUE)

\* a pair was generated, its verifier derived again and the pair verified
C17_Witness ==
  \E p \in Pairs :
    /\ Len(Get(p, "code_verifier").value) > 43
    /\ \E d \in Derived : Arg(d) = Get(p, "code_verifier")
    /\ \E c \in Calls("verifyPkce") :
         c.args = <<Get(p, "code_verifier"), Get(p, "code_challenge")>>

\* the challenges returned by the deriver and those of the generated pairs
DerivedChallenges ==
  {d.outcome.value : d \in Derived} \cup {Get(p, "code_challenge") : p \in Pairs}

\* C18: every challenge derived from a valid verifier, and every
\* code_challenge of a generated pair, is a string of exactly 43 characters
\* of A-Z a-z 0-9 _ - (no "=", "+" or "/"), and isValidChallenge accepts it.
C18_ChallengeWellFormed ==
  /\ \A d \in Calls("createCodeChallenge") :
       ValidVerifier(Arg(d)) => ~d.outcome.threw
  /\ \A challenge \in DerivedChallenges :
       /\ IsString(challenge)
       /\ Len(challenge.value) = 43
       /\ OverBase64url(challenge.value)
       /\ \A i \in 1..43 : SubSeq(challenge.value, i, i) \notin {"=", "+", "/"}
       /\ isValidChallenge(challenge)

\* the challenge of a verifier of 128 characters (three hash blocks) holds
\* a character that standard base64 writes differently
C18_Witness ==
  \E d \in Derived :
    /\ Len(Arg(d).value) = 128
    /\ \E i \in 1..43 : SubSeq(d.outcome.value.value, i, i) \in {"-", "_"}

\* C19 as stated: the verifier "dBjftJeZ4CVP-gOP-GDAHCBqeqAMNR8GvKMsVWo9ZNs"
\* derives to the challenge "E9Melhoa2OwvFrEMTJguCHaoeK1t8URWbuGJSstw-cM".
C19_VectorAsStated ==
  \A d \in Calls("createCodeChallenge") :
    Arg(d) = JSString("dBjftJeZ4CVP-gOP-GDAHCBqeqAMNR8GvKMsVWo9ZNs")
    => /\ ~d.outcome.threw
       /\ d.outcome.value = JSString("E9Melhoa2OwvFrEMTJguCHaoeK1t8URWbuGJSstw-cM")

\* C19: the verifier "dBjftJeZ4CVP-gOP-GDAHCBqeqAMNR8GvKMsVWo9ZNs" (43
\* characters) derives to "zIIjmAAeD7mWVTU3x4TypFXvkw2ywnbTFnbYqI5M9WE"; the
\* challenge "E9Melhoa2OwvFrEMTJguCHaoeK1t8URWbuGJSstw-cM" is derived from the
\* verifier of RFC 7636 appendix B,
\* "dBjftJeZ4CVP-mB92K27uhbUJU1p1r_wW1gFWFOEjXk".
C19_Vectors ==
  \A d \in Calls("createCodeChallenge") :
    /\ Arg(d) = JSString("dBjftJeZ4CVP-gOP-GDAHCBqeqAMNR8GvKMsVWo9ZNs")
       => /\ Len(Arg(d).value) = 43
          /\ ~d.outcome.threw
          /\ d.outcome.value = JSString("zIIjmAAeD7mWVTU3x4TypFXvkw2ywnbTFnbYqI5M9WE")
    /\ Arg(d) = JSString("dBjftJeZ4CVP-mB92K27uhbUJU1p1r_wW1gFWFOEjXk")
       => /\ ~d.outcome.threw
          /\ d.outcome.value = JSString("E9Melhoa2OwvFrEMTJguCHaoeK1t8URWbuGJSstw-cM")

\* the deriver was called with the first of the two verifiers and returned
C19_Witness ==
  \E d \in Derived : Arg(d) = JSString("dBjftJeZ4CVP-gOP-GDAHCBqeqAMNR8GvKMsVWo9ZNs")

\* what a recorded call returns when its function runs alone, from start to
\* end, with the same arguments and the same random draws
Alone(c) ==
  CASE c.op = "pkce" -> pkce(c.random[1])
    [] c.op = "createCodeVerifier" -> Return(JSString(createCodeVerifier(c.random[1])), 0)
    [] c.op = "createCodeChallenge" -> createCodeChallenge(Arg(c))
    [] c.op = "isValidVerifier" -> Return(JSBoolean(isValidVerifier(Arg(c))), 0)
    [] c.op = "isValidChallenge" -> Return(JSBoolean(isValidChallenge(Arg(c))), 0)
    [] OTHER -> c.outcome

\* C20: under any interleaving of the steps of concurrent invocations of the
\* generator, the deriver, the predicates and the pair generator, every
\* invocation returns what it returns when run alone with the same arguments
\* and random draws, and each returned pair has the challenge derived from
\* its verifier.
C20_ConcurrentAsAlone ==
  /\ \A c \in Made : c.outcome = Alone(c)
  /\ \A p \in Pairs :
       Get(p, "code_challenge") = JSString(digest(Get(p, "code_verifier").value))

\* a pair generator invocation returned while an earlier one, drawing from
\* another stream, was in flight between its two calls
C20_Witness ==
  /\ Len(frames) = 2
  /\ At(1, "pkce", "derive") /\ At(2, "pkce", "done")
  /\ frames[1].random # frames[2].random
  /\ Pairs # {}

\* the pkce calls that returned, each counted as often as it was made
PairsReturned ==
  LET made == {c \in Calls("pkce") : ~c.outcome.threw}
      RECURSIVE Sum(_)
      Sum(S) == IF S = {} THEN 0
                ELSE LET c == CHOOSE x \in S : TRUE IN history[c] + Sum(S \ {c})
  IN  Sum(made)

Selection(stream) ==
  LET length == 43 + (Math_random(stream, 0) * 86) \div RandomScale
  IN  [i \in 0..length |->
         IF i = 0 THEN length ELSE (Math_random(stream, i) * 66) \div RandomScale]

Generated == {c \in Calls("createCodeVerifier") : ~c.outcome.threw}
PairCalls == {c \in Calls("pkce") : ~c.outcome.threw}

SecureSources ==
  {"crypto.getRandomValues", "crypto.randomBytes", "crypto.randomInt",
   "crypto.randomFillSync"}

\* the source of the draws of a call
SourcesOf(c) == IF c.random = <<>> THEN {} ELSE {RandomSource}

\* C23: the verifier generator draws its length and every character from a
\* cryptographically secure random source: every call that draws, draws from
\* one of the secure sources.
C23_SecureSource ==
  \A c \in Generated \cup PairCalls : SourcesOf(c) \subseteq SecureSources

\* the character of a string at an index counted from 0
CharacterAt(str, index) == SubSeq(str, index + 1, index + 1)

\* C24: the draws cover exactly the specified ranges: every generated string
\* has the length 43 + floor(r * 86), a value in 43..128, and one allowed
\* character for every index below it (charAt never returned the empty
\* string); and once r has swept [0,1), every length in 43..128 has been
\* returned and every one of the 66 characters has occurred at every index
\* 0..127.
C24_DrawsCoverRanges ==
  /\ \A c \in Generated :
       LET str == c.outcome.value.value
       IN  /\ Len(str) = 43 + (Math_random(c.random[1], 0) * 86) \div RandomScale
           /\ Len(str) \in 43..128
           /\ \A index \in 0..(Len(str) - 1) : CharacterAt(str, index) \in Unreserved
  /\ Swept = 2 * Sweeps
     => /\ {Len(c.outcome.value.value) : c \in Generated} = 43..128
        /\ Cardinality(Unreserved) = 66
        /\ \A index \in 0..127 :
             {CharacterAt(c.outcome.value.value, index) :
                c \in {d \in Generated : Len(d.outcome.value.value) > index}}
             = Unreserved

\* the sweep is complete: every length and every character has been drawn
C24_Witness ==
  /\ Swept = 2 * Sweeps
  /\ \E c \in Generated : Len(c.outcome.value.value) = 128
  /\ \E c \in Generated : Len(c.outcome.value.value) = 43

\* the invocations of the pair generator, and the calls recorded for one
PairFrames == {i \in DOMAIN frames : frames[i].op = "pkce"}

RecordedFor(i) ==
  {c \in Calls("pkce") : c.random = frames[i].random}

\* what an invocation of the pair generator holds at each position; a
\* record is there for every invocation that has returned and for no other
PairProgress(i) ==
  LET locals == frames[i].locals
      pc == frames[i].pc
  IN  /\ pc \in {"start", "derive", "return", "done"}
      /\ pc = "start"
         => locals.codeVerifier = JSUndefined /\ locals.codeChallenge = JSUndefined
      /\ pc = "derive"
         => /\ IsString(locals.codeVerifier)
            /\ Len(locals.codeVerifier.value) = Selection(frames[i].random[1])[0]
            /\ locals.codeChallenge = JSUndefined
            /\ locals.hashed = 0
      /\ pc \in {"return", "done"}
         => /\ IsString(locals.codeVerifier)
            /\ locals.codeChallenge = JSString(digest(locals.codeVerifier.value))
            /\ locals.hashed = 1
      /\ pc = "done"
         => \E c \in RecordedFor(i) :
              /\ ~c.outcome.threw
              /\ Get(c.outcome.value, "code_verifier") = locals.codeVerifier
              /\ Get(c.outcome.value, "code_challenge") = locals.codeChallenge
      /\ Cardinality(RecordedFor(i)) <= 1
      /\ Cardinality({j \in PairFrames : frames[j].random = frames[i].random
                                          /\ frames[j].pc = "done"})
           = (IF RecordedFor(i) = {} THEN 0
              ELSE history[CHOOSE c \in RecordedFor(i) : TRUE])

\* a step of an invocation of the pair generator: generate, then derive,
\* then return; a value once assigned stays
PairStep(i) ==
  LET before == frames[i]
      after == frames'[i]
  IN  /\ <<before.pc, after.pc>> \in
           {<<"start", "start">>, <<"start", "derive">>, <<"derive", "derive">>,
            <<"derive", "return">>, <<"return", "return">>, <<"return", "done">>,
            <<"done", "done">>}
      /\ before.pc # "start" => after.locals.codeVerifier = before.locals.codeVerifier
      /\ before.pc \notin {"start", "derive"}
         => after.locals.codeChallenge = before.locals.codeChallenge
      /\ after.locals.hashed - before.locals.hashed
           = IF before.pc = "derive" /\ after.pc = "return" THEN 1 ELSE 0

\* C25: per call the pair generator performs exactly one verifier generation,
\* then exactly one derivation applied to that verifier, and only then
\* builds the record: the challenge of every record is the digest of its
\* verifier, every record has its three fields, and no record is returned
\* before both values are there.
C25_GenerateThenDeriveThenReturn ==
  /\ [](\A i \in PairFrames : PairProgress(i))
  /\ [](\A c \in Calls("pkce") :
          /\ ~c.outcome.threw
          /\ c.outcome.hashed = 1
          /\ Keys(c.outcome.value) = {"code_verifier", "code_challenge", "code_challenge_method"}
          /\ IsString(Get(c.outcome.value, "code_verifier"))
          /\ Get(c.outcome.value, "code_challenge")
               = JSString(digest(Get(c.outcome.value, "code_verifier").value)))
  /\ [][\A i \in PairFrames : PairStep(i)]_vars

\* two invocations of the pair generator, drawing from different streams,
\* have both returned
C25_Witness ==
  /\ Len(frames) = 2
  /\ At(1, "pkce", "done") /\ At(2, "pkce", "done")
  /\ frames[1].random # frames[2].random
  /\ Cardinality(Pairs) = 2

MinimalDerived == Calls("minimal.createCodeChallenge")
MinimalPairs == Returned("minimal.pkce")

\* C26: the minimal variant is a restriction of the full one: on every valid
\* verifier the non-validating deriver returns the challenge the validating
\* deriver returns; on every invalid string it returns a string where the
\* validating deriver raises; and every pair the minimal pair generator
\* returns satisfies isValidVerifier, isValidChallenge and verifyPkce of the
\* full variant.
C26_MinimalIsRestriction ==
  /\ \A c \in MinimalDerived :
       LET full == createCodeChallenge(Arg(c))
       IN  /\ ~c.outcome.threw
           /\ IsString(c.outcome.value)
           /\ ValidVerifier(Arg(c)) => ~full.threw /\ full.value = c.outcome.value
           /\ ~ValidVerifier(Arg(c)) => full.threw
  /\ \A p \in MinimalPairs :
       /\ isValidVerifier(Get(p, "code_verifier"))
       /\ isValidChallenge(Get(p, "code_challenge"))
       /\ verifyPkce(Get(p, "code_verifier"), Get(p, "code_challenge"))
            = Return(JSBoolean(TRUE), 1)

\* the minimal deriver was called with a valid verifier
C26_Witness ==
  \E c \in MinimalDerived :
    /\ ValidVerifier(Arg(c))
    /\ Len(c.outcome.value.value) = 43

\* the calls of the validator and of the deriver with a string argument
StringValidations ==
  {c \in Calls("validateCodeVerifier") \cup Calls("createCodeChallenge") : IsString(Arg(c))}

\* C27: the validator and the predicate agree on strings: for every string s,
\* validateCodeVerifier(s), and so createCodeChallenge(s), raises an error
\* if and only if isValidVerifier(s) returns false.
C27_ValidatorAgreesWithPredicate ==
  /\ \A c \in StringValidations : c.outcome.threw <=> ~isValidVerifier(Arg(c))
  /\ \A c \in Calls("isValidVerifier") :
       IsString(Arg(c))
       => /\ (c.outcome.value = JSBoolean(FALSE)) <=> validateCodeVerifier(Arg(c)).threw
          /\ (c.outcome.value = JSBoolean(FALSE)) <=> createCodeChallenge(Arg(c)).threw

\* the validator raised for a string one character longer than the upper
\* bound and otherwise well formed
C27_Witness ==
  \E c \in StringValidations :
    /\ c.op = "validateCodeVerifier"
    /\ c.outcome.threw
    /\ Len(Arg(c).value) = 129
    /\ Disallowed(Arg(c).value) = {}

\* the values that are neither strings nor falsy
TruthyOther(v) ==
  /\ v.type \notin {"string", "undefined", "null"}
  /\ v \notin {JSBoolean(FALSE), JSNumber(0)}

\* the four validation errors
ValidationError(message) ==
  \/ message = "Code verifier is required"
  \/ message = "Code verifier must be at least 43 characters long (RFC 7636)"
  \/ message = "Code verifier must be no more than 128 characters long (RFC 7636)"
  \/ /\ Len(message) > 40
     /\ SubSeq(message, 1, 40) = "Code verifier contains invalid character"

\* C28: the deriver never returns a challenge for a value that is not a
\* string: for every truthy non-string value the validator, alone and as the
\* first step of the deriver, raises one of the four validation errors, as
\* isValidVerifier returns false for that value.
C28_NonStringsRejected ==
  /\ \A c \in Calls("validateCodeVerifier") \cup Calls("createCodeChallenge") :
       TruthyOther(Arg(c)) => c.outcome.threw /\ ValidationError(Message(c))
  /\ \A c \in Calls("isValidVerifier") :
       TruthyOther(Arg(c)) => c.outcome.value = JSBoolean(FALSE)

\* the calls of verifyPkce that returned true
Verified == {c \in Calls("verifyPkce") : c.outcome.value = JSBoolean(TRUE)}

\* C29: whenever verifyPkce(verifier, challenge) returns true,
\* isValidVerifier(verifier) is true and isValidChallenge(challenge) is true.
C29_VerifiedAreWellFormed ==
  \A c \in Verified :
    /\ isValidVerifier(c.args[1])
    /\ isValidChallenge(c.args[2])
    /\ ValidVerifier(c.args[1])
    /\ IsString(c.args[2]) /\ Len(c.args[2].value) = 43 /\ OverBase64url(c.args[2].value)

\* verifyPkce returned true for a verifier of the greatest length
C29_Witness ==
  \E c \in Verified : Len(c.args[1].value) = 128 /\ c.outcome.hashed = 1

\* the indexes of a string below a bound that hold a disallowed character
DisallowedBelow(str, bound) ==
  {k \in 0..(bound - 1) : SubSeq(str, k + 1, k + 1) \notin Unreserved}

\* an invocation of the generator inside and after its loop: after i
\* iterations the partial result has i allowed characters, and the string
\* returned has the chosen length
FillProgress(f) ==
  LET locals == frames[f].locals
  IN  /\ frames[f].pc \in {"fill", "done"}
         => /\ locals.length \in 43..128
            /\ locals.i \in 0..locals.length
            /\ Len(locals.codeVerifierArray) = locals.i
            /\ \A k \in 1..locals.i : locals.codeVerifierArray[k] \in Unreserved
      /\ frames[f].pc = "done"
         => /\ locals.i = locals.length
            /\ \E c \in Calls("createCodeVerifier") :
                 /\ ~c.outcome.threw
                 /\ Len(c.outcome.value.value) = locals.length
                 /\ Disallowed(c.outcome.value.value) = {}

\* an invocation of the validator inside and after its scan: the characters
\* passed are allowed, and the scan ends at the first disallowed character
\* or at the end of the string
ScanProgress(f) ==
  LET locals == frames[f].locals
      str == frames[f].args[1].value
  IN  /\ frames[f].pc = "scan"
         => /\ locals.i \in 0..Len(str)
            /\ DisallowedBelow(str, locals.i) = {}
      /\ frames[f].pc = "done" /\ IsString(frames[f].args[1]) /\ Len(str) \in 43..128
         => /\ locals.i \in 0..Len(str)
            /\ DisallowedBelow(str, locals.i) = {}
            /\ \E c \in Calls("validateCodeVerifier") :
                 IF Disallowed(str) = {}
                 THEN ~c.outcome.threw /\ locals.i = Len(str)
                 ELSE c.outcome.threw /\ locals.i \in Disallowed(str)

\* a step of a loop is one iteration: the counter grows by one, and the
\* generator appends one character to what it had
LoopIteration(f) ==
  LET before == frames[f].locals
      after == frames'[f].locals
  IN  frames[f].pc \in {"fill", "scan"} /\ frames'[f].pc = frames[f].pc
      => /\ after.i = before.i + 1
         /\ Len(after.codeVerifierArray) = Len(before.codeVerifierArray)
              + (IF frames[f].pc = "fill" THEN 1 ELSE 0)
         /\ \A k \in 1..Len(before.codeVerifierArray) :
              after.codeVerifierArray[k] = before.codeVerifierArray[k]

\* C30: the fill loop of the generator always terminates: having chosen the
\* length L it performs exactly L iterations, each appending one allowed
\* character (after i iterations the partial result has length i and only
\* allowed characters), and returns a string of length L; the scan of the
\* validator terminates after at most length(s) steps, stopping at the first
\* disallowed character.
C30_LoopsTerminate ==
  /\ [](\A f \in DOMAIN frames :
          /\ frames[f].op = "createCodeVerifier" => FillProgress(f)
          /\ frames[f].op = "validateCodeVerifier" => ScanProgress(f))
  /\ [][\A f \in DOMAIN frames : f \in DOMAIN frames' => LoopIteration(f)]_vars
  /\ (frames # <<>>) ~> (frames # <<>> /\ frames[1].pc = "done")

\* the generator has returned after 128 iterations, the most there can be
C30_Witness ==
  /\ frames # <<>>
  /\ At(1, "createCodeVerifier", "done")
  /\ frames[1].locals.i = 128

====
